---- MODULE Spec2Model ----
(***************************************************************************)
(* hover-ddns: the HoverClient of hover/hover.go (Login, Update,           *)
(* updateSingleRecord and the four remote calls), driven by                *)
(*   - the reconciliation engine of a run over several hosts and both      *)
(*     address families (specification Spec), and                          *)
(*   - main of hover-ddns.go, one host and the IPv4 family                 *)
(*     (specification SpecMain),                                           *)
(*   - a caller of Login and Update in any order (SpecCaller),             *)
(* and the lookup providers of package publicip, driven by a caller of     *)
(* GetPublicIP and GetPublicIPv6 (specification SpecProv).                 *)
(* Every HTTP request is one step; reqs is the history of the requests     *)
(* issued in the current run, in the order they were issued.               *)
(***************************************************************************)
EXTENDS Integers, Sequences, FiniteSets, TLC

\* ----------------------------------------------------------------- bounds
NumHosts == 2
MaxAddr == 2
MaxFailures == 1
MaxRuns == 2

\* -------------------------------------------------------------- constants
RecordTTL == 3600

Hosts == 1..NumHosts
Types == <<"A", "AAAA">>
TypeSet == {"A", "AAAA"}

\* ------------------------------------------------------------------ net.IP
\* A net.IP is a byte slice: nil, 4 bytes, 16 bytes holding an IPv4-mapped
\* address, 16 bytes holding an IPv6 address, or any other length ("bad").
NilIP == [kind |-> "nil", a |-> 0]
IP4(n) == [kind |-> "ip4", a |-> n]
IP4in16(n) == [kind |-> "ip4in16", a |-> n]
IP6(n) == [kind |-> "ip6", a |-> n]
BadIP == [kind |-> "bad", a |-> 0]

To4(ip) ==
    IF ip.kind \in {"ip4", "ip4in16"} THEN IP4(ip.a) ELSE NilIP

To16(ip) ==
    IF ip.kind = "ip4" THEN IP4in16(ip.a)
    ELSE IF ip.kind \in {"ip4in16", "ip6"} THEN ip
    ELSE NilIP

\* The text of an address: fam 4 is dotted decimal, fam 6 is colon-hex,
\* fam 0 is text that is no address ("<nil>", "?...").
NoText == [fam |-> 0, a |-> 0]
IPString(ip) ==
    IF To4(ip) # NilIP THEN [fam |-> 4, a |-> ip.a]
    ELSE IF ip.kind = "ip6" THEN [fam |-> 6, a |-> ip.a]
    ELSE NoText

IPEqual(x, y) ==
    IF To4(x) # NilIP /\ To4(y) # NilIP THEN x.a = y.a
    ELSE x = y

\* ------------------------------------------------------------ HoverClient
\* A cookie pointer of the client: nil, or a cookie with a value; the
\* session cookie may also be the zero http.Cookie{} ("zero").
NilCookie == "nil"

\* (mutant) every client counts as authenticated
IsAuthenticated_Always(sc, ac) == TRUE

\* (mutant) the stored session is never recognised
IsAuthenticated_Never(sc, ac) == FALSE

IsAuthenticated(sc, ac) ==
    ~ (sc = NilCookie \/ ac = NilCookie)

NoID == 0

\* (mutant) the scan compares the record type only
RECURSIVE ScanRecords_TypeOnly(_, _, _, _, _)
ScanRecords_TypeOnly(entries, i, recordID, hostName, recordType) ==
    IF i > Len(entries) THEN recordID
    ELSE ScanRecords_TypeOnly(entries, i + 1,
                     IF entries[i].type = recordType THEN entries[i].id ELSE recordID,
                     hostName, recordType)

\* (mutant) the scan keeps the first matching entry
RECURSIVE ScanRecords_First(_, _, _, _, _)
ScanRecords_First(entries, i, recordID, hostName, recordType) ==
    IF i > Len(entries) THEN recordID
    ELSE ScanRecords_First(entries, i + 1,
                     IF entries[i].name = hostName /\ entries[i].type = recordType
                        /\ recordID = NoID
                     THEN entries[i].id ELSE recordID,
                     hostName, recordType)

RECURSIVE ScanRecords(_, _, _, _, _)
ScanRecords(entries, i, recordID, hostName, recordType) ==
    IF i > Len(entries) THEN recordID
    ELSE ScanRecords(entries, i + 1,
                     IF entries[i].name = hostName /\ entries[i].type = recordType
                     THEN entries[i].id ELSE recordID,
                     hostName, recordType)

\* (mutant) the scan compares the host name only
RECURSIVE ScanNames(_, _, _, _)
ScanNames(entries, i, recordID, hostName) ==
    IF i > Len(entries) THEN recordID
    ELSE ScanNames(entries, i + 1,
                   IF entries[i].name = hostName THEN entries[i].id ELSE recordID,
                   hostName)

MatchRecordID_NameOnly(entries, hostName, recordType) ==
    ScanNames(entries, 1, NoID, hostName)

\* the scan of getRecordID over the entries of the response
MatchRecordID(entries, hostName, recordType) ==
    ScanRecords(entries, 1, NoID, hostName, recordType)

ValidIP4(ip) == To4(ip) # NilIP

ValidIP6(ip) == To16(ip) # NilIP

\* (mutant) a nil address is not told from an address to submit
UpdateDispatch_IgnoreNil(from, ip4, ip6) ==
    IF from = "A" THEN <<"lookup", "A">>
    ELSE IF from = "AAAA" THEN <<"lookup", "AAAA">>
    ELSE <<"return", "-">>

\* Update: the family handled next, starting with family from ("A", "AAAA"
\* or "end"): <<stage, type>>.
UpdateDispatch(from, ip4, ip6) ==
    IF from = "A" /\ ip4 # NilIP /\ ValidIP4(ip4) THEN <<"lookup", "A">>
    ELSE IF from \in {"A", "AAAA"} /\ ip6 # NilIP /\ ValidIP6(ip6) THEN <<"lookup", "AAAA">>
    ELSE <<"return", "-">>

\* (mutant) the record is created first and the old one deleted afterwards
UpsertNext_CreateFirst(stage, recordID, err) ==
    IF err THEN "fail"
    ELSE IF stage = "lookup" THEN "create"
    ELSE IF stage = "create" THEN (IF ~ (recordID = NoID) THEN "delete" ELSE "done")
    ELSE "done"

\* (mutant) the record is created although its DELETE failed
UpsertNext_IgnoreDeleteErr(stage, recordID, err) ==
    IF err /\ stage # "delete" THEN "fail"
    ELSE IF stage = "lookup" THEN (IF ~ (recordID = NoID) THEN "delete" ELSE "create")
    ELSE IF stage = "delete" THEN "create"
    ELSE "done"

\* (mutant) a create that failed is issued again
UpsertNext_RetryCreate(stage, recordID, err) ==
    IF err /\ stage = "create" THEN "create"
    ELSE IF err THEN "fail"
    ELSE IF stage = "lookup" THEN (IF ~ (recordID = NoID) THEN "delete" ELSE "create")
    ELSE IF stage = "delete" THEN "create"
    ELSE "done"

\* (mutant) a record that was found is not deleted
UpsertNext_SkipDelete(stage, recordID, err) ==
    IF err THEN "fail"
    ELSE IF stage \in {"lookup", "delete"} THEN "create"
    ELSE "done"

\* updateSingleRecord: what follows a stage, given the record ID found and
\* whether the stage's call returned an error.
UpsertNext(stage, recordID, err) ==
    IF err THEN "fail"
    ELSE IF stage = "lookup" THEN (IF ~ (recordID = NoID) THEN "delete" ELSE "create")
    ELSE IF stage = "delete" THEN "create"
    ELSE "done"


\* ------------------------------------------------------------------ errors
\* An error value is its message; a transport error (*url.Error) names the
\* HTTP method of the request that failed, and the error for a status other
\* than 200 ends with the status code (0 in every other error).
NoErr == [msg |-> "nil", op |-> "-", code |-> 0]
Err(m) == [msg |-> m, op |-> "-", code |-> 0]
TransportErr(method) == [msg |-> "transport", op |-> method, code |-> 0]
StatusError(code) == [msg |-> "Received status code", op |-> "-", code |-> code]
\* Login's credentials request is answered with 200 or 500
StatusErr == StatusError(500)

\* What Update returns once getDomainID has succeeded, given the errors the
\* two upserts returned.
UpdateReturn(err4, err6) == NoErr

\* ------------------------------------------------------------------- state
VARIABLES
    mode,           \* who drives the client: "engine", "main" or "caller"
    calls,          \* the calls a caller of the client has made
    prov,           \* the frame of the public-IP provider's GetPublicIP
    cfg,            \* [force, dryRun]
    desired,        \* the desired address of each family (NilIP: none)
    host,           \* the host being processed
    need,           \* the families of the host that need an update
    pc,             \* the position of the single thread of execution
    sessionCookie,  \* HoverClient.sessionCookie
    authCookie,     \* HoverClient.authCookie
    lf,             \* the frame of Login: its local sessionCookie, its result,
                    \* the cookies of the auth response; popped by the caller
    uf,             \* the frame of Update
    records,        \* the remote record list, in response order
    nextID,         \* the ID the remote gives the next record
    reqs,           \* the requests issued in this run, in order
    failures,       \* the failed requests of this run
    loginCalls,     \* the invocations of Login in this run
    updateRet,      \* what Update returned to its caller, per host
    run,            \* the number of the run, and what the run before it did
    exitCode        \* the exit status of the process (-1: running)

vars == <<mode, calls, prov, cfg, desired, host, need, pc, sessionCookie, authCookie, lf, uf,
          records, nextID, reqs, failures, loginCalls, updateRet, run, exitCode>>

NoRet == Err("not called")
NoProv ==
    [i |-> 0, resp |-> "nil", in |-> "none", slept |-> 0, err |-> NoErr,
     body |-> [text |-> NoText, ws |-> FALSE], fam |-> 0,
     p |-> "none", v6 |-> FALSE, ip |-> [kind |-> "nil", a |-> 0], n0 |-> 0,
     sys |-> [err |-> FALSE, ifaces |-> << >>], name |-> ""]
NoNeed == [t \in TypeSet |-> FALSE]
NoLoginFrame == [sess |-> "zero", err |-> NoErr, cookies |-> << >>]
NoUpdateFrame ==
    [hostName |-> 0, ip4 |-> NilIP, ip6 |-> NilIP, domainID |-> NoID, type |-> "-",
     recordID |-> NoID, err4 |-> NoRet, err6 |-> NoRet, ret |-> NoRet]
UpdateFrame(h, ip4, ip6) ==
    [NoUpdateFrame EXCEPT !.hostName = h, !.ip4 = ip4, !.ip6 = ip6]

\* A request of the history: id is the record ID a DELETE names or a record
\* lookup returned, n the number of entries of a record list that match the
\* lookup's host name and type (of a lookup of main: the number of addresses
\* net.LookupIP returned), code the status of the response (0 when it
\* plays no part), sc and ac the cookies the request carries, dom the domain
\* ID in the URL of a create request, net the network a provider's client
\* dials and fam the address family of the connection that answered.
Req(op, h, t, id, content, res) ==
    [op |-> op, h |-> h, t |-> t, id |-> id, content |-> content, ttl |-> 0, n |-> 0,
     res |-> res, code |-> 0, sc |-> "-", ac |-> "-", dom |-> 0, net |-> "-", fam |-> 0]

\* req.AddCookie(c.sessionCookie); req.AddCookie(c.authCookie), and the status
\* the request is answered with
Authenticated(r, code) == [r EXCEPT !.code = code, !.sc = sessionCookie, !.ac = authCookie]

\* The statuses other than 200 a response is drawn with: one for the engine
\* and for main, two (a client and a server error) for the caller harness.
StatusCodes == IF mode = "caller" THEN {403, 500} ELSE {500}

\* the statuses a response with outcome res can have (0: no response)
Codes(res) ==
    IF res = "status" THEN StatusCodes ELSE IF res = "transport" THEN {0} ELSE {200}

\* The outcomes of a request: the failures (and the responses that lack what
\* the client looks for) are drawn while the run's budget of them lasts.
Outcomes(good, bad) == IF failures < MaxFailures THEN good \cup bad ELSE good

Failed(res, bad) == IF res \in bad THEN failures + 1 ELSE failures

\* --------------------------------------------------------- the remote side
Rec(id, name, type, content) ==
    [id |-> id, name |-> name, type |-> type, content |-> content]

OldText(type) == [fam |-> IF type = "A" THEN 4 ELSE 6, a |-> 1]

\* every host has an A and an AAAA record, and host 1 a second A record
FullRecords ==
    [i \in 1..(2 * NumHosts) |->
        Rec(i, (i + 1) \div 2, IF i % 2 = 1 THEN "A" ELSE "AAAA",
            OldText(IF i % 2 = 1 THEN "A" ELSE "AAAA"))]
        \o << Rec(2 * NumHosts + 1, 1, "A", [fam |-> 4, a |-> 2]) >>

\* records of other types and other names only
ForeignRecords ==
    << Rec(1, 1, "MX", NoText), Rec(2, 0, "A", OldText("A")) >>

InitialRecords == {FullRecords, ForeignRecords}

FirstID == 2 * NumHosts + 2

RemoveID(entries, id) == SelectSeq(entries, LAMBDA r : r.id # id)

DomainID == 1

\* ------------------------------------------------------------------- Login
\* (mutant) the first hoverauth cookie is taken, with or without a value
RECURSIVE FirstAuthCookie_AcceptEmpty(_, _)
FirstAuthCookie_AcceptEmpty(cookies, i) ==
    IF i > Len(cookies) THEN NilCookie
    ELSE IF cookies[i].name = "hoverauth" THEN cookies[i].value
    ELSE FirstAuthCookie_AcceptEmpty(cookies, i + 1)

\* (mutant) the last hoverauth cookie with a value is taken
RECURSIVE FirstAuthCookie_Last(_, _)
FirstAuthCookie_Last(cookies, i) ==
    IF i > Len(cookies) THEN NilCookie
    ELSE LET rest == FirstAuthCookie_Last(cookies, i + 1)
         IN  IF rest # NilCookie THEN rest
             ELSE IF cookies[i].name = "hoverauth" /\ cookies[i].value # "" THEN cookies[i].value
             ELSE NilCookie

\* the loop over resp.Cookies() of the auth response: the value of the first
\* cookie named hoverauth that has a value, NilCookie when there is none
RECURSIVE FirstAuthCookie(_, _)
FirstAuthCookie(cookies, i) ==
    IF i > Len(cookies) THEN NilCookie
    ELSE IF cookies[i].name = "hoverauth" /\ cookies[i].value # "" THEN cookies[i].value
    ELSE FirstAuthCookie(cookies, i + 1)

Cookie(n, v) == [name |-> n, value |-> v]

AuthResponses ==
    { << Cookie("hoverauth", ""), Cookie("hoverauth", "tok1") >>,
      << Cookie("other", "x"), Cookie("hoverauth", "tok1"), Cookie("hoverauth", "tok2") >>,
      << Cookie("hoverauth", "") >>,
      << >> }

\* GET the sign-in page and look for the hover_session cookie
LoginSignin ==
    /\ pc = "login_call"
    /\ \E res \in Outcomes({"ok"}, {"ok_nocookie", "status", "transport"}) :
        /\ reqs' = Append(reqs, Req("signin", 0, "-", NoID, NoText, res))
        /\ failures' = Failed(res, {"ok_nocookie", "status", "transport"})
        /\ IF res \in {"status", "transport"}
           THEN /\ lf' = [sess |-> "zero", err |-> Err("Failed to get session cookie"),
                        cookies |-> << >>]
                /\ pc' = "login_ret"
           ELSE /\ lf' = [sess |-> IF res = "ok" THEN "captured" ELSE "zero", err |-> NoErr,
                        cookies |-> << >>]
                /\ pc' = "login_auth"
    /\ loginCalls' = loginCalls + 1
    /\ UNCHANGED <<mode, calls, prov, cfg, desired, host, need, sessionCookie, authCookie, uf,
                   records, nextID, updateRet, run, exitCode>>

\* (mutant) the cookies are assigned although no hoverauth cookie was found
StoreSession_WithoutAuthCookie(res, new, old) ==
    IF res \in {"ok", "nocookie"} THEN new ELSE old

\* (mutant) a Login that fails clears the session
StoreSession_ClearOnFailure(res, new, old) ==
    IF res = "ok" THEN new ELSE NilCookie

\* the cookie the client holds after the credentials request: Login assigns
\* its cookies only when it found a hoverauth cookie with a value
StoreSession(res, new, old) ==
    IF res = "ok" THEN new ELSE old

\* (mutant) Login returns nil when no hoverauth cookie was found
LoginAuthErr_NoCookieNil(res) ==
    IF res \in {"ok", "nocookie"} THEN NoErr
    ELSE IF res = "transport" THEN TransportErr("Post")
    ELSE StatusErr

\* (mutant) Login returns nil when the credentials request was answered with
\* a status other than 200
LoginAuthErr_StatusNil(res) ==
    IF res \in {"ok", "status"} THEN NoErr
    ELSE IF res = "transport" THEN TransportErr("Post")
    ELSE Err("didn't receive a hoverauth cookie")

\* the error Login returns for the outcome of the credentials request
LoginAuthErr(res) ==
    IF res = "ok" THEN NoErr
    ELSE IF res = "transport" THEN TransportErr("Post")
    ELSE IF res = "status" THEN StatusErr
    ELSE Err("didn't receive a hoverauth cookie")

\* POST the credentials and look for a hoverauth cookie with a value
LoginAuth ==
    /\ pc = "login_auth"
    /\ \E status \in Outcomes({"ok"}, {"status", "transport"}) :
       \E cookies \in IF status = "ok" THEN AuthResponses ELSE {<< >>} :
        LET found == FirstAuthCookie(cookies, 1)
            res == IF status # "ok" THEN status
                   ELSE IF found = NilCookie THEN "nocookie" ELSE "ok"
        IN  /\ status = "ok" /\ found = NilCookie => failures < MaxFailures
            /\ reqs' = Append(reqs, Req("auth", 0, "-", NoID, NoText, res))
            /\ failures' = Failed(res, {"status", "transport", "nocookie"})
            /\ authCookie' = StoreSession(res, found, authCookie)
            /\ sessionCookie' = StoreSession(res, lf.sess, sessionCookie)
            /\ lf' = [lf EXCEPT !.err = LoginAuthErr(res), !.cookies = cookies]
    /\ pc' = "login_ret"
    /\ UNCHANGED <<mode, calls, prov, cfg, desired, host, need, uf, records, nextID, loginCalls,
                   updateRet, run, exitCode>>


\* ------------------------------------------------------------------ Update
\* The frame and position once the upsert of the frame's type has returned err
\* (or was never started, from = "A"): the other family, or the return.
Continue(f, from) ==
    LET d == UpdateDispatch(from, f.ip4, f.ip6)
    IN  IF d[1] = "lookup"
        THEN [pc |-> "upsert_lookup", uf |-> [f EXCEPT !.type = d[2], !.recordID = NoID]]
        ELSE [pc |-> "update_ret",
              uf |-> [f EXCEPT !.type = "-", !.ret = UpdateReturn(f.err4, f.err6)]]

UpsertReturned(f, err) ==
    IF f.type = "A" THEN Continue([f EXCEPT !.err4 = err], "AAAA")
    ELSE Continue([f EXCEPT !.err6 = err], "end")

\* The frame and position after a stage of updateSingleRecord.
UpsertStep(f, stage, err) ==
    LET n == UpsertNext(stage, f.recordID, err # NoErr)
    IN  IF n = "delete" THEN [pc |-> "upsert_delete", uf |-> f]
        ELSE IF n = "create" THEN [pc |-> "upsert_create", uf |-> f]
        ELSE UpsertReturned(f, err)

\* (mutant) the error for a status other than 200 does not name the status
ResultErr_NoCode(res, code, method) ==
    IF res = "ok" THEN NoErr
    ELSE IF res = "transport" THEN TransportErr(method)
    ELSE IF res = "status" THEN Err("Received status code")
    ELSE IF res = "unsucceeded"
         THEN Err(IF method = "Domains" THEN "Domain request failed"
                  ELSE "records request failed")
    ELSE Err("Could not find domain")

\* The error a remote call returns for the outcome of its request.
ResultErr(res, code, method) ==
    IF res = "ok" THEN NoErr
    ELSE IF res = "transport" THEN TransportErr(method)
    ELSE IF res = "status" THEN StatusError(code)
    ELSE IF res = "unsucceeded"
         THEN Err(IF method = "Domains" THEN "Domain request failed"
                  ELSE "records request failed")
    ELSE Err("Could not find domain")

\* (mutant) a domain list without the domain is no error
GetDomainID_NoCheck(res, code) ==
    [id |-> IF res = "ok" THEN DomainID ELSE NoID,
     err |-> IF res = "transport" THEN TransportErr("Get")
             ELSE IF res = "nodomain" THEN NoErr
             ELSE ResultErr(res, code, "Domains")]

\* getDomainID: the ID and the error it returns for the outcome of the domain
\* list request
GetDomainID(res, code) ==
    [id |-> IF res = "ok" THEN DomainID ELSE NoID,
     err |-> IF res = "transport" THEN TransportErr("Get")
             ELSE ResultErr(res, code, "Domains")]

\* Update up to the result of getDomainID
UpdateGetDomainID ==
    /\ pc = "update_call"
    /\ IF ~ IsAuthenticated(sessionCookie, authCookie)
       THEN /\ uf' = [uf EXCEPT !.ret = Err("no auth session was provided")]
            /\ pc' = "update_ret"
            /\ UNCHANGED <<reqs, failures>>
       ELSE \E res \in Outcomes({"ok"}, {"status", "transport", "unsucceeded", "nodomain"}) :
            \E code \in Codes(res) :
            /\ reqs' = Append(reqs, Authenticated(Req("domains", uf.hostName, "-", NoID,
                                                      NoText, res), code))
            /\ failures' = Failed(res, {"status", "transport", "unsucceeded", "nodomain"})
            /\ LET r == GetDomainID(res, code)
               IN  IF r.err # NoErr
                   THEN /\ uf' = [uf EXCEPT !.ret = r.err]
                        /\ pc' = "update_ret"
                   ELSE LET c == Continue([uf EXCEPT !.domainID = r.id], "A")
                        IN  uf' = c.uf /\ pc' = c.pc
    /\ UNCHANGED <<mode, calls, prov, cfg, desired, host, need, sessionCookie, authCookie, lf,
                   records, nextID, loginCalls, updateRet, run, exitCode>>

\* getRecordID: the record list request and the scan of its entries. The
\* status of the response is read before the error of the request is looked
\* at: without a response the read is a nil dereference.
UpsertLookup ==
    /\ pc = "upsert_lookup"
    /\ \E res \in Outcomes({"ok"}, {"status", "transport", "unsucceeded"}) :
       \E code \in Codes(res) :
        LET id == IF res = "ok" THEN MatchRecordID(records, uf.hostName, uf.type)
                  ELSE NoID
            s == UpsertStep([uf EXCEPT !.recordID = id], "lookup",
                            ResultErr(res, code, "Get"))
            n == IF res = "ok"
                 THEN Cardinality({i \in DOMAIN records : records[i].name = uf.hostName
                                                           /\ records[i].type = uf.type})
                 ELSE 0
        IN  /\ reqs' = Append(reqs, [Authenticated(Req("records", uf.hostName, uf.type, id,
                                                       NoText, res), code)
                                        EXCEPT !.n = n])
            /\ failures' = Failed(res, {"status", "transport", "unsucceeded"})
            /\ IF res = "transport"
               THEN pc' = "panic" /\ uf' = uf
               ELSE uf' = s.uf /\ pc' = s.pc
    /\ UNCHANGED <<mode, calls, prov, cfg, desired, host, need, sessionCookie, authCookie, lf,
                   records, nextID, loginCalls, updateRet, run, exitCode>>

UpsertDelete ==
    /\ pc = "upsert_delete"
    /\ \E res \in Outcomes({"ok"}, {"status", "transport"}) :
       \E code \in Codes(res) :
        /\ reqs' = Append(reqs, Authenticated(Req("delete", uf.hostName, uf.type, uf.recordID,
                                                  NoText, res), code))
        /\ failures' = Failed(res, {"status", "transport"})
        /\ records' = IF res = "ok" THEN RemoveID(records, uf.recordID) ELSE records
        /\ LET s == UpsertStep(uf, "delete", ResultErr(res, code, "Delete"))
           IN  uf' = s.uf /\ pc' = s.pc
    /\ UNCHANGED <<mode, calls, prov, cfg, desired, host, need, sessionCookie, authCookie, lf,
                   nextID, loginCalls, updateRet, run, exitCode>>

\* (mutant) the record is created without the TTL
CreateRecord_NoTTL(domainID, hostName, address, recordType) ==
    [dom |-> domainID, name |-> hostName, type |-> recordType, content |-> address,
     ttl |-> 0]

\* createRecord: the JSON body of the POST and the domain ID of its URL
CreateRecord(domainID, hostName, address, recordType) ==
    [dom |-> domainID, name |-> hostName, type |-> recordType, content |-> address,
     ttl |-> RecordTTL]

UpsertCreate ==
    /\ pc = "upsert_create"
    /\ \E res \in Outcomes({"ok"}, {"status", "transport"}) :
       \E code \in Codes(res) :
        LET address == IPString(IF uf.type = "A" THEN uf.ip4 ELSE uf.ip6)
            c == CreateRecord(uf.domainID, uf.hostName, address, uf.type)
        IN  /\ reqs' = Append(reqs, [Authenticated(Req("create", c.name, c.type, NoID,
                                                       c.content, res), code)
                                        EXCEPT !.ttl = c.ttl, !.dom = c.dom])
            /\ failures' = Failed(res, {"status", "transport"})
            /\ IF res = "ok"
               THEN /\ records' = Append(records, Rec(nextID, uf.hostName, uf.type, address))
                    /\ nextID' = nextID + 1
               ELSE UNCHANGED <<records, nextID>>
            /\ LET s == UpsertStep(uf, "create", ResultErr(res, code, "Post"))
               IN  uf' = s.uf /\ pc' = s.pc
    /\ UNCHANGED <<mode, calls, prov, cfg, desired, host, need, sessionCookie, authCookie, lf,
                   loginCalls, updateRet, run, exitCode>>

ClientNext == LoginSignin \/ LoginAuth \/ UpdateGetDomainID \/ UpsertLookup
              \/ UpsertDelete \/ UpsertCreate


\* ------------------------------------------------- the reconciliation engine
\* The result of a lookup of the published address: an error, or the answers.
Lookup(err, ips) == [err |-> err, ips |-> ips]

DnsAnswers(t) ==
    { Lookup(NoErr, << IF t = "A" THEN IP4(a) ELSE IP6(a) >>) : a \in 1..MaxAddr }

DnsFailures == { Lookup(Err("query failed"), << >>), Lookup(Err("no answer"), << >>) }

\* The decision policy: an unknown current value differs from the desired one;
\* an equal one is updated only when the update is forced.
NeedsUpdate(lookup, want, force) ==
    IF lookup.err # NoErr THEN TRUE
    ELSE IF IPEqual(lookup.ips[1], want) THEN force
    ELSE TRUE

DnsRes(lookup, want) ==
    IF lookup.err # NoErr THEN "err"
    ELSE IF IPEqual(lookup.ips[1], want) THEN "equal" ELSE "differ"

NextHost(h) ==
    IF h + 1 > NumHosts THEN [pc |-> "run_done", host |-> h]
    ELSE [pc |-> "check4", host |-> h + 1]

\* the comparison of one family of the current host
EngineCheck(at, t, then) ==
    /\ mode = "engine"
    /\ pc = at
    /\ IF desired[t] = NilIP
       THEN /\ need' = [need EXCEPT ![t] = FALSE]
            /\ UNCHANGED <<reqs, failures>>
       ELSE \E lookup \in IF failures < MaxFailures THEN DnsAnswers(t) \cup DnsFailures
                          ELSE DnsAnswers(t) :
            /\ reqs' = Append(reqs, Req("dns", host, t, NoID, IPString(desired[t]),
                                        DnsRes(lookup, desired[t])))
            /\ failures' = IF lookup.err # NoErr THEN failures + 1 ELSE failures
            /\ need' = [need EXCEPT ![t] = NeedsUpdate(lookup, desired[t], cfg.force)]
    /\ pc' = then
    /\ UNCHANGED <<mode, calls, prov, cfg, desired, host, sessionCookie, authCookie, lf, uf,
                   records, nextID, loginCalls, updateRet, run, exitCode>>

\* nothing to change, or a dry run: the next host; else authenticate if no
\* session exists yet, and update the families that need it
EngineDecide ==
    /\ mode = "engine"
    /\ pc = "decide"
    /\ IF cfg.dryRun \/ ~ (need["A"] \/ need["AAAA"])
       THEN /\ pc' = NextHost(host).pc
            /\ host' = NextHost(host).host
            /\ need' = NoNeed
            /\ uf' = uf
       ELSE /\ uf' = UpdateFrame(host, IF need["A"] THEN desired["A"] ELSE NilIP,
                                       IF need["AAAA"] THEN desired["AAAA"] ELSE NilIP)
            /\ pc' = IF IsAuthenticated(sessionCookie, authCookie)
                     THEN "update_call" ELSE "login_call"
            /\ UNCHANGED <<host, need>>
    /\ UNCHANGED <<mode, calls, prov, cfg, desired, sessionCookie, authCookie, lf, records, nextID,
                   reqs, failures, loginCalls, updateRet, run, exitCode>>

\* a failed authentication aborts the remainder of the run
EngineAfterLogin ==
    /\ mode = "engine"
    /\ pc = "login_ret"
    /\ pc' = IF lf.err # NoErr THEN "run_aborted" ELSE "update_call"
    /\ lf' = NoLoginFrame
    /\ UNCHANGED <<mode, calls, prov, cfg, desired, host, need, sessionCookie, authCookie, uf,
                   records, nextID, reqs, failures, loginCalls, updateRet, run, exitCode>>

\* the result of Update is logged and the next host is processed
EngineAfterUpdate ==
    /\ mode = "engine"
    /\ pc = "update_ret"
    /\ updateRet' = [updateRet EXCEPT ![host] = uf.ret]
    /\ pc' = NextHost(host).pc
    /\ host' = NextHost(host).host
    /\ need' = NoNeed
    /\ UNCHANGED <<mode, calls, prov, cfg, desired, sessionCookie, authCookie, lf, uf, records,
                   nextID, reqs, failures, loginCalls, run, exitCode>>

EngineNext ==
    \/ EngineCheck("check4", "A", "check6")
    \/ EngineCheck("check6", "AAAA", "decide")
    \/ EngineDecide
    \/ EngineAfterLogin
    \/ EngineAfterUpdate

\* The desired addresses of a run: of the right family, absent, or (a manual
\* override, a provider's answer) of the other family or no address at all.
DesiredStates ==
    { [A |-> IP4(1), AAAA |-> IP6(1)],
      [A |-> IP4in16(1), AAAA |-> NilIP],
      [A |-> NilIP, AAAA |-> IP6(1)],
      [A |-> IP6(1), AAAA |-> IP4(1)],
      [A |-> BadIP, AAAA |-> BadIP],
      [A |-> NilIP, AAAA |-> NilIP] }

\* of the run before: whether it found the published address equal to the
\* desired one, and its authentication and mutating requests
NoPrev == [equal |-> FALSE, calls |-> 0]

InitCommon ==
    /\ cfg \in [force : BOOLEAN, dryRun : BOOLEAN]
    /\ host = 1
    /\ need = NoNeed
    /\ sessionCookie = NilCookie
    /\ authCookie = NilCookie
    /\ lf = NoLoginFrame
    /\ uf = NoUpdateFrame
    /\ records \in InitialRecords
    /\ nextID = FirstID
    /\ reqs = << >>
    /\ failures = 0
    /\ loginCalls = 0
    /\ updateRet = [h \in Hosts |-> NoRet]
    /\ run = [n |-> 1, prev |-> NoPrev]
    /\ exitCode = -1
    /\ calls = 0
    /\ prov = NoProv

Init ==
    /\ mode = "engine"
    /\ desired \in DesiredStates
    /\ pc = "check4"
    /\ InitCommon

Next == EngineNext \/ ClientNext

Spec == Init /\ [][Next]_vars


\* -------------------------------------------------------------------- main
\* (mutant) an address that is already published is submitted again
MainDecision_NoShortcut(lookup, ip, force, dryRun) ==
    IF lookup.err # NoErr THEN "exit1"
    ELSE IF ~ dryRun THEN "update"
    ELSE "exit0"

\* (mutant) the force-update setting is not looked at
MainDecision_IgnoreForce(lookup, ip, force, dryRun) ==
    IF lookup.err # NoErr THEN "exit1"
    ELSE IF IPEqual(lookup.ips[1], ip) THEN "exit0"
    ELSE IF ~ dryRun THEN "update"
    ELSE "exit0"

\* (mutant) the dry-run flag is not looked at
MainDecision_IgnoreDryRun(lookup, ip, force, dryRun) ==
    IF lookup.err # NoErr THEN "exit1"
    ELSE IF IPEqual(lookup.ips[1], ip) /\ ~ force THEN "exit0"
    ELSE "update"

\* What main does with the address to submit, the lookup of the current
\* address, the force-update setting and the dry-run flag.
MainDecision(lookup, ip, force, dryRun) ==
    IF lookup.err # NoErr THEN "exit1"
    ELSE IF IPEqual(lookup.ips[1], ip) /\ ~ force THEN "exit0"
    ELSE IF ~ dryRun THEN "update"
    ELSE "exit0"

\* net.ParseIP: the address a text denotes (an IPv4 address comes in 16
\* bytes), or nil
ParseIP(text) ==
    IF text.fam = 4 THEN IP4in16(text.a)
    ELSE IF text.fam = 6 THEN IP6(text.a)
    ELSE NilIP

\* the values of -ip-address: no address, an IPv4 address, an IPv6 address
ManualStrings == { NoText, [fam |-> 4, a |-> 1], [fam |-> 6, a |-> 1] }

\* the address to submit when -ip-address is given
MainAddresses ==
    { [manual |-> TRUE, ip |-> ParseIP(t)] : t \in ManualStrings }

\* net.LookupIP of the host: the addresses of both families
\* what net.LookupIP can hand to resolveCurrentIP: answers, an error, several
\* answers, and a nil error with no address
MainLookups ==
    DnsAnswers("A") \cup DnsAnswers("AAAA") \cup DnsFailures
        \cup { Lookup(NoErr, << IP4(1), IP4(2) >>), Lookup(NoErr, << >>) }

\* resolveCurrentIP: the error of net.LookupIP, else ips[0]; the index is not
\* guarded by a length check, so an empty slice is an index-out-of-range panic
ResolveCurrentIP(lookup) ==
    IF lookup.err # NoErr THEN [ip |-> NilIP, err |-> lookup.err, panic |-> FALSE]
    ELSE IF Len(lookup.ips) = 0 THEN [ip |-> NilIP, err |-> NoErr, panic |-> TRUE]
    ELSE [ip |-> lookup.ips[1], err |-> NoErr, panic |-> FALSE]

\* ---- the ipify provider (publicip/ipify.go)
numOfRetries == 3
timeout == 1000

\* The body of a response of a text endpoint: a text, and whether whitespace
\* (a trailing newline) surrounds it.
Body(text, ws) == [text |-> text, ws |-> ws]

\* strings.TrimSpace
TrimSpace(body) == Body(body.text, FALSE)

\* net.ParseIP of a body as it is: a string with whitespace around an
\* address is not an address
ParseBody(body) == IF body.ws THEN NilIP ELSE ParseIP(body.text)

\* ipify: ipString := string(ipBytes); net.ParseIP(ipString)
IpifyParse(body) == ParseBody(body)

\* icanhazip and amazon: ipString := strings.TrimSpace((string)(ipBytes));
\* net.ParseIP(ipString)
IcanhazipParse(body) == ParseBody(TrimSpace(body))
AmazonParse(body) == ParseBody(TrimSpace(body))

\* The network a provider's HTTP client dials: the clients of icanhazip and
\* amazon replace DialContext by one that dials tcp4 or tcp6; http.Get of
\* ipify uses the default transport, which dials tcp.
DialNetwork(p, v6) ==
    IF p = "ipify" THEN "tcp" ELSE IF v6 THEN "tcp6" ELSE "tcp4"

\* the families the endpoint's host name can resolve to
Resolutions == { {4}, {6}, {4, 6} }

\* the families a connection dialled on a network can have
ConnFamilies(network, resolved) ==
    IF network = "tcp4" THEN resolved \cap {4}
    ELSE IF network = "tcp6" THEN resolved \cap {6}
    ELSE resolved

\* the bodies of a response of the text endpoint
IpifyBodies ==
    { Body([fam |-> 4, a |-> 1], FALSE), Body([fam |-> 4, a |-> 1], TRUE),
      Body([fam |-> 6, a |-> 1], FALSE), Body(NoText, FALSE) }

\* (mutant) the loop makes one attempt more
IpifyContinue_OffByOne(i) == i <= numOfRetries

\* the condition of the loop of GetPublicIP
IpifyContinue(i) == i < numOfRetries

\* the address to submit: the parsed -ip-address, or the provider is asked
MainGetIP ==
    /\ mode = "main"
    /\ pc = "main_ip"
    /\ \/ \E in \in MainAddresses :
            IF in.ip = NilIP
            THEN /\ prov' = [NoProv EXCEPT !.in = "manual",
                                           !.err = Err("is not a valid IP address")]
                 /\ pc' = "exit" /\ exitCode' = 1 /\ desired' = desired
            ELSE /\ prov' = [NoProv EXCEPT !.in = "manual"]
                 /\ desired' = [A |-> in.ip, AAAA |-> NilIP]
                 /\ pc' = "main_resolve"
                 /\ exitCode' = exitCode
       \/ /\ prov' = [NoProv EXCEPT !.in = "provider"]
          /\ pc' = IF IpifyContinue(0) THEN "ipify_loop" ELSE "ipify_done"
          /\ UNCHANGED <<desired, exitCode>>
    /\ UNCHANGED <<mode, calls, cfg, host, need, sessionCookie, authCookie, lf, uf, records,
                   nextID, reqs, failures, loginCalls, updateRet, run>>

\* one pass of the loop of GetPublicIP: getResponse, and the break on a
\* response with status 200
IpifyAttempt ==
    /\ mode \in {"main", "prov"}
    /\ pc = "ipify_loop"
    /\ \E res \in {"ok", "status", "transport"} :
       \E resolved \in IF res = "ok" THEN Resolutions ELSE {{}} :
       \E fam \in IF res = "ok" THEN ConnFamilies(DialNetwork("ipify", FALSE), resolved)
                  ELSE {0} :
        /\ reqs' = Append(reqs, [Req("ipify", host, "A", NoID, NoText, res)
                                    EXCEPT !.net = DialNetwork("ipify", FALSE), !.fam = fam])
        /\ IF res = "ok"
           THEN prov' = [prov EXCEPT !.resp = "set", !.fam = fam] /\ pc' = "ipify_done"
           ELSE prov' = prov /\ pc' = "ipify_sleep"
    /\ UNCHANGED <<mode, calls, cfg, desired, host, need, sessionCookie, authCookie, lf, uf,
                   records, nextID, failures, loginCalls, updateRet, run, exitCode>>

\* the delay after a failed attempt, and the next test of the loop condition
IpifySleep ==
    /\ mode \in {"main", "prov"}
    /\ pc = "ipify_sleep"
    /\ prov' = [prov EXCEPT !.i = prov.i + 1, !.slept = prov.slept + timeout]
    /\ pc' = IF IpifyContinue(prov.i + 1) THEN "ipify_loop" ELSE "ipify_done"
    /\ UNCHANGED <<mode, calls, cfg, desired, host, need, sessionCookie, authCookie, lf, uf,
                   records, nextID, reqs, failures, loginCalls, updateRet, run, exitCode>>

\* the bodies an endpoint sends over a connection of family fam: the address
\* it saw the request come from, or something that is no address
BodiesOver(fam) == { b \in IpifyBodies : b.text.fam \in {0, fam} }

\* GetPublicIP after its loop: no response, or the parsed body
IpifyResult(resp, body) ==
    LET ip == IF resp = "nil" THEN NilIP ELSE IpifyParse(body)
    IN  [ip |-> ip,
         err |-> IF resp = "nil" THEN Err("Was not able to get a valid response")
                 ELSE IF ip = NilIP THEN Err("is not a valid IP address")
                 ELSE NoErr]

\* GetPublicIP after its loop, and what main does with its result
IpifyReturn ==
    /\ mode = "main"
    /\ pc = "ipify_done"
    /\ \E body \in IF prov.resp = "nil" THEN {Body(NoText, FALSE)} ELSE BodiesOver(prov.fam) :
        LET ip == IpifyResult(prov.resp, body).ip
            err == IpifyResult(prov.resp, body).err
        IN  /\ prov' = [prov EXCEPT !.err = err, !.body = body]
            /\ IF err # NoErr
               THEN pc' = "exit" /\ exitCode' = 1 /\ desired' = desired
               ELSE /\ desired' = [A |-> ip, AAAA |-> NilIP]
                    /\ pc' = "main_resolve"
                    /\ exitCode' = exitCode
    /\ UNCHANGED <<mode, calls, cfg, host, need, sessionCookie, authCookie, lf, uf, records,
                   nextID, reqs, failures, loginCalls, updateRet, run>>

MainResolve ==
    /\ mode = "main"
    /\ pc = "main_resolve"
    /\ \E lookup \in MainLookups :
        LET r == ResolveCurrentIP(lookup)
            d == MainDecision(lookup, desired["A"], cfg.force, cfg.dryRun)
        IN  IF r.panic
            THEN /\ reqs' = Append(reqs, [Req("dns", host, "A", NoID, IPString(desired["A"]),
                                              "empty") EXCEPT !.n = Len(lookup.ips)])
                 /\ pc' = "panic"
                 /\ UNCHANGED exitCode
            ELSE /\ reqs' = Append(reqs, [Req("dns", host, "A", NoID, IPString(desired["A"]),
                                              DnsRes(lookup, desired["A"]))
                                          EXCEPT !.n = Len(lookup.ips)])
                 /\ pc' = IF d = "update" THEN "main_update" ELSE "exit"
                 /\ exitCode' = IF d = "exit1" THEN 1 ELSE IF d = "exit0" THEN 0
                                 ELSE exitCode
    /\ UNCHANGED <<mode, calls, prov, cfg, desired, host, need, sessionCookie, authCookie, lf, uf,
                   records, nextID, failures, loginCalls, updateRet, run>>

\* hover.Update(username, password, domain, host, ip): authenticate, then
\* update the A record of the host
MainCallUpdate ==
    /\ mode = "main"
    /\ pc = "main_update"
    /\ uf' = UpdateFrame(host, desired["A"], NilIP)
    /\ pc' = IF IsAuthenticated(sessionCookie, authCookie) THEN "update_call" ELSE "login_call"
    /\ UNCHANGED <<mode, calls, prov, cfg, desired, host, need, sessionCookie, authCookie, lf,
                   records, nextID, reqs, failures, loginCalls, updateRet, run, exitCode>>

MainAfterLogin ==
    /\ mode = "main"
    /\ pc = "login_ret"
    /\ IF lf.err # NoErr
       THEN /\ updateRet' = [updateRet EXCEPT ![host] = lf.err]
            /\ pc' = "exit"
            /\ exitCode' = 1
       ELSE /\ pc' = "update_call"
            /\ UNCHANGED <<updateRet, exitCode>>
    /\ lf' = NoLoginFrame
    /\ UNCHANGED <<mode, calls, prov, cfg, desired, host, need, sessionCookie, authCookie, uf,
                   records, nextID, reqs, failures, loginCalls, run>>

MainAfterUpdate ==
    /\ mode = "main"
    /\ pc = "update_ret"
    /\ updateRet' = [updateRet EXCEPT ![host] = uf.ret]
    /\ exitCode' = IF uf.ret # NoErr THEN 1 ELSE 0
    /\ pc' = "exit"
    /\ UNCHANGED <<mode, calls, prov, cfg, desired, host, need, sessionCookie, authCookie, lf, uf,
                   records, nextID, reqs, failures, loginCalls, run>>

\* the program is started again: a new process, the same configuration, the
\* remote records as the last run left them
MainRestart ==
    /\ mode = "main"
    /\ pc \in {"exit", "panic"}
    /\ run.n < MaxRuns
    /\ run' = [n |-> run.n + 1,
               prev |-> [equal |-> \E i \in DOMAIN reqs : reqs[i].res = "equal",
                         calls |-> Cardinality({i \in DOMAIN reqs : reqs[i].op \in
                                       {"signin", "auth", "delete", "create"}})]]
    /\ pc' = "main_ip"
    /\ desired' = [t \in TypeSet |-> NilIP]
    /\ sessionCookie' = NilCookie
    /\ authCookie' = NilCookie
    /\ lf' = NoLoginFrame
    /\ uf' = NoUpdateFrame
    /\ reqs' = << >>
    /\ failures' = 0
    /\ loginCalls' = 0
    /\ updateRet' = [h \in Hosts |-> NoRet]
    /\ exitCode' = -1
    /\ prov' = NoProv
    /\ UNCHANGED <<mode, calls, cfg, host, need, records, nextID>>

MainNext ==
    \/ MainGetIP
    \/ IpifyAttempt
    \/ IpifySleep
    \/ IpifyReturn
    \/ MainResolve
    \/ MainCallUpdate
    \/ MainAfterLogin
    \/ MainAfterUpdate
    \/ MainRestart

InitMain ==
    /\ mode = "main"
    /\ desired = [t \in TypeSet |-> NilIP]
    /\ pc = "main_ip"
    /\ InitCommon

NextMain == MainNext \/ ClientNext

SpecMain == InitMain /\ [][NextMain]_vars


\* ---------------------------------------------------------------- a caller
\* A caller of the client's exported methods: Login and Update in any order.
MaxCalls == 3

CallerArgs == { <<IP4(1), NilIP>>, <<NilIP, IP6(1)>> }

CallerLogin ==
    /\ mode = "caller"
    /\ pc = "idle"
    /\ calls < MaxCalls
    /\ calls' = calls + 1
    /\ pc' = "login_call"
    /\ UNCHANGED <<mode, prov, cfg, desired, host, need, sessionCookie, authCookie, lf, uf,
                   records, nextID, reqs, failures, loginCalls, updateRet, run, exitCode>>

CallerUpdate ==
    /\ mode = "caller"
    /\ pc = "idle"
    /\ calls < MaxCalls
    /\ \E a \in CallerArgs : uf' = UpdateFrame(host, a[1], a[2])
    /\ calls' = calls + 1
    /\ pc' = "update_call"
    /\ UNCHANGED <<mode, prov, cfg, desired, host, need, sessionCookie, authCookie, lf,
                   records, nextID, reqs, failures, loginCalls, updateRet, run, exitCode>>

CallerReturn ==
    /\ mode = "caller"
    /\ pc \in {"login_ret", "update_ret"}
    /\ updateRet' = IF pc = "update_ret" THEN [updateRet EXCEPT ![host] = uf.ret]
                    ELSE updateRet
    /\ pc' = "idle"
    /\ lf' = IF pc = "login_ret" THEN NoLoginFrame ELSE lf
    /\ UNCHANGED <<mode, calls, prov, cfg, desired, host, need, sessionCookie, authCookie,
                   uf, records, nextID, reqs, failures, loginCalls, run, exitCode>>

CallerNext == CallerLogin \/ CallerUpdate \/ CallerReturn

InitCaller ==
    /\ mode = "caller"
    /\ desired = [t \in TypeSet |-> NilIP]
    /\ pc = "idle"
    /\ InitCommon
    /\ cfg = [force |-> FALSE, dryRun |-> FALSE]

NextCaller == CallerNext \/ ClientNext

SpecCaller == InitCaller /\ [][NextCaller]_vars


\* ------------------------------------------- the providers of package publicip
\* NewLookupProvider: the services a configuration can select
Providers == {"ipify", "icanhazip", "amazon", "local_interface"}

\* (mutant) every provider looks up IPv6 addresses
SupportsV6_All(p) == TRUE

\* GetPublicIPv6 of ipify and of amazon returns an error at once; icanhazip
\* and local_interface run the lookup with v6 = true
SupportsV6(p) == p \in {"icanhazip", "local_interface"}

\* ---- local_interface (publicip/local-interface.go)
\* An address of an interface: its Go type (*net.IPNet or another net.Addr),
\* the IP and the scope IsGlobalUnicast tests.
Addr(type, ip, scope) == [type |-> type, ip |-> ip, scope |-> scope]

\* net.IP.IsGlobalUnicast: not loopback, link-local or multicast
IsGlobalUnicast(a) == a.scope = "global"

\* len(v.IP): net.IPv4len, net.IPv6len
IPLen(ip) ==
    IF ip.kind = "ip4" THEN 4 ELSE IF ip.kind \in {"ip4in16", "ip6"} THEN 16 ELSE 0

\* the condition under which getAddress takes an address
TakesAddr(v6, a) ==
    \/ v6 /\ (IsGlobalUnicast(a) /\ IPLen(a.ip) = 16)
    \/ ~ v6 /\ (IsGlobalUnicast(a) /\ IPLen(a.ip) = 4)

\* the loop over the addresses of one interface; st is (ip, found)
RECURSIVE ScanAddrs(_, _, _, _)
ScanAddrs(addrs, k, v6, st) ==
    IF k > Len(addrs) THEN st
    ELSE IF addrs[k].type = "ipnet"
         THEN IF TakesAddr(v6, addrs[k]) THEN [ip |-> addrs[k].ip, found |-> TRUE]
              ELSE ScanAddrs(addrs, k + 1, v6, st)
         ELSE IF st.found THEN st
              ELSE ScanAddrs(addrs, k + 1, v6, st)

\* the loop over net.Interfaces(): every interface of the configured name is
\* scanned; an error of i.Addrs() ends the search
RECURSIVE ScanInterfaces(_, _, _, _, _)
ScanInterfaces(ifaces, j, name, v6, st) ==
    IF j > Len(ifaces) THEN [ip |-> st.ip, found |-> st.found, err |-> NoErr]
    ELSE IF ifaces[j].name # name THEN ScanInterfaces(ifaces, j + 1, name, v6, st)
    ELSE IF ifaces[j].err THEN [ip |-> NilIP, found |-> FALSE, err |-> Err("addrs failed")]
    ELSE ScanInterfaces(ifaces, j + 1, name, v6, ScanAddrs(ifaces[j].addrs, 1, v6, st))

\* getAddress(v6) of the local-interface provider on the system sys
GetAddress(sys, name, v6) ==
    IF sys.err THEN [ip |-> NilIP, err |-> Err("interfaces failed")]
    ELSE LET r == ScanInterfaces(sys.ifaces, 1, name, v6, [ip |-> NilIP, found |-> FALSE])
         IN  IF r.err # NoErr THEN [ip |-> NilIP, err |-> r.err]
             ELSE IF ~ r.found
                  THEN [ip |-> NilIP, err |-> Err("was not able to find IP address on interface")]
             ELSE [ip |-> r.ip, err |-> NoErr]

Iface(name, addrs) == [name |-> name, addrs |-> addrs, err |-> FALSE]

\* the addresses of the loopback interface
LoAddrs == << Addr("ipnet", IP4in16(2), "loopback"), Addr("ipnet", IP6(2), "loopback") >>

\* The address lists of eth0. net.Interfaces builds the IP of an IPv4 address
\* with net.IPv4, which is the 16-byte form; a list with the 4-byte form is
\* kept as well.
EthAddrs ==
    { << Addr("ipnet", IP6(2), "linklocal"), Addr("ipnet", IP6(1), "global") >>,
      << Addr("ipnet", IP4in16(1), "global"), Addr("ipnet", IP6(2), "linklocal"),
         Addr("ipnet", IP6(1), "global") >>,
      << Addr("ipnet", IP4(1), "global"), Addr("ipnet", IP6(2), "multicast"),
         Addr("ipaddr", IP6(2), "global"), Addr("ipnet", IP6(1), "global"),
         Addr("ipnet", IP6(2), "global") >>,
      << Addr("ipnet", IP6(2), "linklocal") >>,
      << >> }

\* what net.Interfaces() returns
Systems ==
    { [err |-> FALSE, ifaces |-> << Iface("lo", LoAddrs), Iface("eth0", a) >>] : a \in EthAddrs }
        \cup { [err |-> TRUE, ifaces |-> << >>],
               [err |-> FALSE,
                ifaces |-> << Iface("lo", LoAddrs), [Iface("eth0", << >>) EXCEPT !.err = TRUE] >>] }

\* the configured interface_name
InterfaceNames == {"eth0", "lo", "wlan0"}

\* ---- a caller of the providers' methods
MaxProvCalls == 2

\* GetPublicIP (v6 = FALSE) or GetPublicIPv6 of a provider is called
ProvCall ==
    /\ mode = "prov"
    /\ pc = "idle"
    /\ calls < MaxProvCalls
    /\ calls' = calls + 1
    /\ \E p \in Providers, v6 \in BOOLEAN :
        LET f == [NoProv EXCEPT !.in = "provider", !.p = p, !.v6 = v6, !.n0 = Len(reqs)]
        IN  IF v6 /\ ~ SupportsV6(p)
            THEN /\ prov' = [f EXCEPT !.err = Err("provider doesn't support IPv6 yet")]
                 /\ pc' = "prov_ret"
            ELSE /\ prov' = f
                 /\ pc' = IF p = "local_interface" THEN "iface_search"
                          ELSE IF p # "ipify" THEN "text_get"
                          ELSE IF IpifyContinue(0) THEN "ipify_loop" ELSE "ipify_done"
    /\ UNCHANGED <<mode, cfg, desired, host, need, sessionCookie, authCookie, lf, uf,
                   records, nextID, reqs, failures, loginCalls, updateRet, run, exitCode>>

\* getAddress of icanhazip and of amazon: one GET through the client of the
\* family, the status check, the trimmed body parsed
ProvTextGet ==
    /\ mode = "prov"
    /\ pc = "text_get"
    /\ \E resolved \in Resolutions, res \in {"ok", "status", "transport"} :
        LET network == DialNetwork(prov.p, prov.v6)
            fams == ConnFamilies(network, resolved)
        IN  /\ fams = {} => res = "transport"
            /\ \E fam \in IF res = "transport" THEN {0} ELSE fams :
               \E body \in IF res = "ok" THEN BodiesOver(fam) ELSE {Body(NoText, FALSE)} :
                LET ip == IF res # "ok" THEN NilIP
                          ELSE IF prov.p = "amazon" THEN AmazonParse(body)
                          ELSE IcanhazipParse(body)
                    err == IF res = "transport" THEN TransportErr("Get")
                           ELSE IF res = "status" THEN Err("received status code")
                           ELSE IF ip = NilIP THEN Err("is not a valid IP address")
                           ELSE NoErr
                IN  /\ reqs' = Append(reqs, [Req("get", 0, IF prov.v6 THEN "AAAA" ELSE "A",
                                                NoID, NoText, res)
                                            EXCEPT !.net = network, !.fam = fam])
                    /\ prov' = [prov EXCEPT !.ip = ip, !.err = err, !.body = body,
                                            !.fam = fam]
    /\ pc' = "prov_ret"
    /\ UNCHANGED <<mode, calls, cfg, desired, host, need, sessionCookie, authCookie, lf, uf,
                   records, nextID, failures, loginCalls, updateRet, run, exitCode>>

\* GetPublicIP of ipify after its loop
ProvIpifyReturn ==
    /\ mode = "prov"
    /\ pc = "ipify_done"
    /\ \E body \in IF prov.resp = "nil" THEN {Body(NoText, FALSE)} ELSE BodiesOver(prov.fam) :
        LET r == IpifyResult(prov.resp, body)
        IN  prov' = [prov EXCEPT !.ip = r.ip, !.err = r.err, !.body = body]
    /\ pc' = "prov_ret"
    /\ UNCHANGED <<mode, calls, cfg, desired, host, need, sessionCookie, authCookie, lf, uf,
                   records, nextID, reqs, failures, loginCalls, updateRet, run, exitCode>>

\* getAddress of local_interface on what net.Interfaces() returns
ProvInterface ==
    /\ mode = "prov"
    /\ pc = "iface_search"
    /\ \E sys \in Systems, name \in InterfaceNames :
        LET r == GetAddress(sys, name, prov.v6)
        IN  prov' = [prov EXCEPT !.ip = r.ip, !.err = r.err, !.sys = sys, !.name = name]
    /\ pc' = "prov_ret"
    /\ UNCHANGED <<mode, calls, cfg, desired, host, need, sessionCookie, authCookie, lf, uf,
                   records, nextID, reqs, failures, loginCalls, updateRet, run, exitCode>>


\* the caller takes the result
ProvReturn ==
    /\ mode = "prov"
    /\ pc = "prov_ret"
    /\ pc' = "idle"
    /\ UNCHANGED <<mode, calls, prov, cfg, desired, host, need, sessionCookie, authCookie, lf,
                   uf, records, nextID, reqs, failures, loginCalls, updateRet, run, exitCode>>

ProvNext ==
    \/ ProvCall \/ ProvTextGet \/ ProvInterface \/ IpifyAttempt \/ IpifySleep
    \/ ProvIpifyReturn \/ ProvReturn

InitProv ==
    /\ mode = "prov"
    /\ desired = [t \in TypeSet |-> NilIP]
    /\ pc = "idle"
    /\ InitCommon
    /\ cfg = [force |-> FALSE, dryRun |-> FALSE]
    /\ records = FullRecords

SpecProv == InitProv /\ [][ProvNext]_vars


\* ============================================================== properties
Idx == DOMAIN reqs

Is(i, op, h, t) == reqs[i].op = op /\ reqs[i].h = h /\ reqs[i].t = t

Finished == pc \in {"run_done", "run_aborted", "exit", "panic"}

\* the upsert of (h, t) is in progress
InUpsert(h, t) ==
    pc \in {"upsert_lookup", "upsert_delete", "upsert_create"}
        /\ uf.hostName = h /\ uf.type = t

\* C1 -- Replace ordering: every DELETE of an upsert of (host, type) is issued
\* before the create request of that upsert, never after it, and when the
\* record lookup of the upsert found a record, a create request of the upsert
\* is preceded by the DELETE of the record found.
C1_ReplaceOrdering ==
    \A c \in Idx : reqs[c].op = "create" =>
        LET h == reqs[c].h
            t == reqs[c].t
        IN  /\ \A d \in Idx : Is(d, "delete", h, t) => d < c
            /\ \A l \in Idx :
                (Is(l, "records", h, t) /\ reqs[l].id # NoID) =>
                    \E d \in Idx : /\ l < d /\ d < c
                                   /\ Is(d, "delete", h, t)
                                   /\ reqs[d].id = reqs[l].id

\* a record was found, deleted and created again
C1_Witness ==
    \E l, d, c \in Idx : \E h \in Hosts : \E t \in TypeSet :
        /\ Is(l, "records", h, t) /\ reqs[l].id # NoID
        /\ Is(d, "delete", h, t) /\ Is(c, "create", h, t)
        /\ l < d /\ d < c

\* C2 -- Not-found is not an error: a record list fetched successfully with no
\* entry matching (host, type) makes getRecordID return the empty ID without
\* an error, and the upsert then issues exactly one create request and no
\* DELETE.
C2_NotFoundCreatesOnly ==
    \A l \in Idx :
        (reqs[l].op = "records" /\ reqs[l].res = "ok" /\ reqs[l].n = 0) =>
            LET h == reqs[l].h
                t == reqs[l].t
            IN  /\ reqs[l].id = NoID
                /\ \A d \in Idx : ~ Is(d, "delete", h, t)
                /\ InUpsert(h, t) => pc = "upsert_create"
                /\ Cardinality({c \in Idx : Is(c, "create", h, t)})
                       = IF InUpsert(h, t) THEN 0 ELSE 1

\* an upsert that found no record has returned after its create request
C2_Witness ==
    \E l, c \in Idx : \E h \in Hosts : \E t \in TypeSet :
        /\ Is(l, "records", h, t) /\ reqs[l].res = "ok" /\ reqs[l].n = 0
        /\ Is(c, "create", h, t) /\ l < c
        /\ ~ InUpsert(h, t)
        /\ Len(records) > 1


\* the lookup of the published address said that an update is needed
Needs(j) == reqs[j].op = "dns" /\ (reqs[j].res # "equal" \/ cfg.force)

UpsertOps == {"records", "delete", "create"}

SigninIdx == {i \in Idx : reqs[i].op = "signin"}

NumOp(op) == Cardinality({i \in Idx : reqs[i].op = op})

EqualFound == \E i \in Idx : reqs[i].op = "dns" /\ reqs[i].res = "equal"

\* C3 -- Partial-failure containment: once the run is over, a failed IPv4
\* upsert of a host (its record lookup, DELETE or create failed) has not kept
\* the IPv6 upsert of the host from being attempted, nor the following hosts
\* from being processed.
C3_PartialFailureContained ==
    \A h \in Hosts :
        (/\ Finished
         /\ \E f \in Idx : /\ reqs[f].h = h /\ reqs[f].t = "A"
                           /\ reqs[f].op \in UpsertOps /\ reqs[f].res # "ok")
        => /\ ((\E j \in Idx : Is(j, "dns", h, "AAAA") /\ Needs(j))
                    /\ desired["AAAA"].kind = "ip6")
               => \E l \in Idx : Is(l, "records", h, "AAAA")
           /\ \A g \in Hosts : g > h => \E j \in Idx : reqs[j].op = "dns" /\ reqs[j].h = g

\* C4 -- Lazy single authentication: Login is invoked at most once in a run;
\* it is invoked only after the comparison of a host found a change to make,
\* no earlier host needing one; a run that is no dry run and in which a host
\* needs a change invokes it exactly once, and every Update of the run follows
\* it and is made for each host that needs a change.
C4_LazySingleLogin ==
    /\ loginCalls <= 1
    /\ Cardinality(SigninIdx) = loginCalls
    /\ \A s \in SigninIdx :
        \E j \in Idx :
            /\ j < s /\ Needs(j)
            /\ \A k \in Idx : (k < s /\ reqs[k].op = "dns") =>
                    /\ reqs[k].h <= reqs[j].h
                    /\ reqs[k].h < reqs[j].h => ~ Needs(k)
    /\ (Finished /\ ~ cfg.dryRun /\ \E j \in Idx : Needs(j)) => loginCalls = 1
    /\ \A u \in Idx : reqs[u].op = "domains" => \E s \in SigninIdx : s < u
    /\ (pc = "run_done" /\ ~ cfg.dryRun) =>
            \A j \in Idx : Needs(j) => \E u \in Idx : reqs[u].op = "domains"
                                                      /\ reqs[u].h = reqs[j].h

\* every host needed a change: one Login, an Update per host
C4_Witness ==
    /\ pc = "run_done"
    /\ loginCalls = 1
    /\ \A h \in Hosts : /\ \E j \in Idx : Needs(j) /\ reqs[j].h = h /\ reqs[j].res = "differ"
                        /\ \E u \in Idx : reqs[u].op = "domains" /\ reqs[u].h = h
                                          /\ reqs[u].res = "ok"

\* C5 -- Idempotence of a run: with force-update off and the published address
\* equal to the desired one, a run issues no authentication request and no
\* DELETE or create request, and so does the run that follows it.
C5_Idempotent ==
    (~ cfg.force /\ \A i \in Idx : reqs[i].op = "dns" => reqs[i].res = "equal")
        => /\ loginCalls = 0
           /\ \A i \in Idx : reqs[i].op \notin {"signin", "auth", "delete", "create"}

\* a second run that found nothing to do, after a first one that found nothing to do
C5_Witness ==
    /\ run.n = 2 /\ run.prev.equal /\ run.prev.calls = 0
    /\ ~ cfg.force /\ ~ cfg.dryRun
    /\ pc = "exit" /\ exitCode = 0
    /\ Len(reqs) = 1 /\ reqs[1].res = "equal"

\* C6 (as stated, read in its most favourable way: no dry run, an IPv4
\* address to submit, no failed request) -- Force bypass: with force-update on and the published address
\* equal to the desired one, the run issues exactly one DELETE and exactly one
\* create request.
C6_ExactlyOneCycle ==
    (/\ cfg.force /\ ~ cfg.dryRun /\ EqualFound
     /\ ValidIP4(desired["A"])
     /\ pc = "exit" /\ failures = 0)
        => (NumOp("delete") = 1 /\ NumOp("create") = 1)

\* C6 (amended) -- Force bypass: with force-update on, no dry run and the
\* published address equal to the desired one, the update still proceeds (the
\* run does not end before hover.Update was called); at most one DELETE and
\* at most one create request are issued, and exactly one DELETE followed by
\* exactly one create when no request fails and the record lookup finds a
\* record.
C6_ForceBypass ==
    (cfg.force /\ ~ cfg.dryRun /\ EqualFound) =>
        /\ pc = "exit" => updateRet[host] # NoRet
        /\ NumOp("delete") <= 1
        /\ NumOp("create") <= 1
        /\ (pc = "exit" /\ failures = 0 /\ \E l \in Idx : reqs[l].op = "records"
                                                          /\ reqs[l].id # NoID)
            => /\ NumOp("delete") = 1 /\ NumOp("create") = 1
               /\ \E d, c \in Idx : d < c /\ reqs[d].op = "delete" /\ reqs[c].op = "create"
               /\ exitCode = 0

\* a forced run over an equal address that deleted and created the record
C6_Witness ==
    /\ cfg.force /\ ~ cfg.dryRun /\ EqualFound
    /\ pc = "exit" /\ failures = 0
    /\ NumOp("delete") = 1 /\ NumOp("create") = 1

\* C7 -- Disabled family isolation: a family with no desired value is never
\* looked up in the DNS and no record lookup, DELETE or create of its record
\* type is issued; with no family enabled nothing is requested and Login is
\* not invoked; Login always follows the comparison of an enabled family; and
\* a family passed as nil to Update (no change needed) is not upserted.
C7_DisabledFamilyIsolated ==
    /\ \A t \in TypeSet : desired[t] = NilIP => \A i \in Idx : reqs[i].t # t
    /\ (\A t \in TypeSet : desired[t] = NilIP) => (reqs = << >> /\ loginCalls = 0)
    /\ \A s \in SigninIdx : \E j \in Idx : j < s /\ Needs(j) /\ desired[reqs[j].t] # NilIP
    /\ \A i \in Idx : reqs[i].op \in UpsertOps =>
            /\ \E j \in Idx : j < i /\ Is(j, "dns", reqs[i].h, reqs[i].t) /\ Needs(j)
            /\ reqs[i].h = uf.hostName =>
                    (IF reqs[i].t = "A" THEN uf.ip4 ELSE uf.ip6) # NilIP

\* the run is over, one family was absent and the other one was upserted
C7_Witness ==
    /\ pc = "run_done"
    /\ desired["A"] = NilIP
    /\ \E c \in Idx : reqs[c].op = "create" /\ reqs[c].t = "AAAA" /\ reqs[c].res = "ok"


\* the errors an upsert returns when its record lookup or its DELETE failed
LookupOrDeleteErrors ==
    { ResultErr(r[1], r[2], "Get") : r \in {"status", "unsucceeded"} \X StatusCodes }
        \cup { ResultErr(r[1], r[2], "Delete") : r \in {"status", "transport"} \X StatusCodes }

\* C8 -- A create failure after a successful DELETE is surfaced: once Update
\* has returned for a host one of whose upserts deleted the record and then
\* failed to create the new one, the caller holds an error, and one that a
\* failed record lookup or a failed DELETE does not produce.
C8_CreateFailureSurfaced ==
    \A h \in Hosts : \A t \in TypeSet :
        (/\ updateRet[h] # NoRet
         /\ \E d, c \in Idx : /\ d < c
                              /\ Is(d, "delete", h, t) /\ reqs[d].res = "ok"
                              /\ Is(c, "create", h, t) /\ reqs[c].res # "ok")
        => /\ updateRet[h] # NoErr
           /\ updateRet[h] \notin LookupOrDeleteErrors

InUpdate == pc \in {"update_call", "upsert_lookup", "upsert_delete", "upsert_create",
                    "update_ret"}

\* C9 -- Local validation (the domain list request, which Update issues before
\* it looks at the addresses, set aside): an IPv4 value that is no IPv4
\* address and an IPv6 value that is no IPv6 address are rejected before any
\* request for their record is issued, and no create request carries an
\* address of one family under the record type of the other.
C9_LocalValidation ==
    /\ \A c \in Idx : reqs[c].op = "create" =>
            reqs[c].content.fam = (IF reqs[c].t = "A" THEN 4 ELSE 6)
    /\ \A i \in Idx : (InUpdate /\ reqs[i].op \in UpsertOps /\ reqs[i].h = uf.hostName) =>
            IF reqs[i].t = "A" THEN uf.ip4.kind \in {"ip4", "ip4in16"}
            ELSE uf.ip6.kind = "ip6"

\* C10 -- Unknown current value biases toward update: in a run that is no dry
\* run, a lookup of the published address that fails or has no answer is
\* followed by the attempt to update (the run reaches Login); the run is not
\* aborted.
C10_UnknownBiasesToUpdate ==
    (/\ Finished /\ ~ cfg.dryRun
     /\ \E i \in Idx : reqs[i].op = "dns" /\ reqs[i].res = "err")
    => loginCalls >= 1

\* Login failed: request i is a sign-in or credentials request that made it
\* return an error
LoginFailedAt(i) ==
    reqs[i].op \in {"signin", "auth"} /\ reqs[i].res \in {"status", "transport", "nocookie"}

\* C11 -- Authentication failure aborts the remainder of the run: once Login
\* has failed, the client holds no session, the run is over (no later host is
\* processed), no record lookup, DELETE or create request follows, and Login
\* is not attempted again.
C11_AuthFailureAborts ==
    \A i \in Idx : LoginFailedAt(i) =>
        /\ ~ IsAuthenticated(sessionCookie, authCookie)
        /\ pc \in {"login_ret", "run_aborted"}
        /\ loginCalls = 1
        /\ \A k \in Idx : k > i =>
                reqs[k].op \notin {"domains", "records", "delete", "create", "signin", "auth"}

\* the run was aborted by a failed Login with hosts left to process
C11_Witness ==
    /\ pc = "run_aborted"
    /\ host < NumHosts
    /\ \E i \in Idx : LoginFailedAt(i) /\ reqs[i].res = "nocookie"

\* the requests that only read: the lookup of the public address and the
\* lookup of the published one
ReadOps == {"ipify", "dns"}

\* C12 -- Dry run: in dry-run mode the address was obtained and compared with
\* the published one when the run ends, but Login is never invoked and no
\* request is issued to the remote API (no sign-in, no domain or record
\* lookup, no DELETE, no create), whatever the comparison says and whatever
\* the force-update setting is; the remote records stay as they were.
C12_DryRun ==
    cfg.dryRun =>
        /\ loginCalls = 0
        /\ \A i \in Idx : reqs[i].op \in ReadOps
        /\ records \in InitialRecords
        /\ (pc = "exit" /\ desired["A"] # NilIP) => \E i \in Idx : reqs[i].op = "dns"

\* a forced dry run that found the published address to differ has ended
C12_Witness ==
    /\ cfg.dryRun /\ cfg.force
    /\ pc = "exit" /\ exitCode = 0
    /\ \E i \in Idx : reqs[i].op = "dns" /\ reqs[i].res = "differ"

\* C14 -- The session is one-way: once IsAuthenticated() is true it is true
\* after every step of every later operation (an Update that succeeds or
\* fails, a Login that fails or succeeds again).
C14_SessionOneWay ==
    [][IsAuthenticated(sessionCookie, authCookie)
          => IsAuthenticated(sessionCookie', authCookie')]_vars

\* a Login failed after a Login that had succeeded, and the session is there
C14_Witness ==
    /\ IsAuthenticated(sessionCookie, authCookie)
    /\ pc = "idle"
    /\ \E i, j \in Idx : /\ i < j
                          /\ reqs[i].op = "auth" /\ reqs[i].res = "ok"
                          /\ LoginFailedAt(j)

\* the errors getDomainID returns
DomainErrors ==
    { GetDomainID(r[1], r[2]).err :
        r \in {"status", "transport", "unsucceeded", "nodomain"} \X StatusCodes }

\* C15 -- A domain-resolution failure is scoped to the host: when the domain
\* list request of a host fails, answers succeeded=false or lists no domain of
\* the configured name, no record lookup, DELETE or create request is issued
\* for the host, the domain list is not requested again for it, Update
\* returns the error, and the run goes on with the next host.
C15_DomainFailureScoped ==
    \A i \in Idx : (reqs[i].op = "domains" /\ reqs[i].res # "ok") =>
        LET h == reqs[i].h
        IN  /\ \A k \in Idx : reqs[k].h = h => reqs[k].op \notin UpsertOps
            /\ \A k \in Idx : (reqs[k].op = "domains" /\ reqs[k].h = h) => k = i
            /\ pc # "run_aborted"
            /\ IF updateRet[h] = NoRet
               THEN host = h /\ pc = "update_ret" /\ uf.ret \in DomainErrors
               ELSE /\ updateRet[h] \in DomainErrors
                    /\ h < NumHosts => host > h

\* the domain list of the first host lacked the domain, and a record of a
\* later host was created
C15_Witness ==
    /\ \E i \in Idx : reqs[i].op = "domains" /\ reqs[i].res = "nodomain" /\ reqs[i].h = 1
    /\ \E c \in Idx : reqs[c].op = "create" /\ reqs[c].res = "ok" /\ reqs[c].h > 1

\* C16 -- The outcome of every family is reported to the caller: once Update
\* has returned for a host one of whose upserts failed (its record lookup, its
\* DELETE or its create), the result the caller holds is an error.
C16_OutcomeReported ==
    \A h \in Hosts :
        (/\ updateRet[h] # NoRet
         /\ \E f \in Idx : /\ reqs[f].h = h
                           /\ reqs[f].op \in UpsertOps
                           /\ reqs[f].res # "ok")
        => updateRet[h] # NoErr

\* C17 -- No remote failure crashes the core: whatever request of Login,
\* getDomainID, getRecordID, deleteRecord or createRecord fails, at the
\* transport level or with a non-success status, the call returns; the
\* process never panics inside the client.
C17_NoCrash ==
    pc # "panic"

\* C20 -- The domain ID is resolved once per run: a run issues at most one
\* domain list request for the domain its hosts belong to.
C20_DomainResolvedOnce ==
    NumOp("domains") <= 1

\* C18 -- A manual override that does not parse as an IP address: the family
\* is absent from this run, and the process is not terminated with a failure
\* because of it.
C18_UnparsableOverrideSkipsFamily ==
    (prov.in = "manual" /\ prov.err # NoErr) => ~ (pc = "exit" /\ exitCode = 1)

\* the attempts of GetPublicIP that failed
IpifyFailed == {i \in Idx : reqs[i].op = "ipify" /\ reqs[i].res # "ok"}

\* C19 -- Bounded retry of the text endpoint: GetPublicIP makes at most
\* numOfRetries GET attempts; it sleeps the fixed delay after each failed
\* attempt; no attempt follows an attempt answered with status 200; and when
\* numOfRetries attempts have failed it returns an error (main exits with
\* status 1).
C19_BoundedRetry ==
    /\ NumOp("ipify") <= numOfRetries
    /\ prov.i <= numOfRetries
    /\ \A i, k \in Idx : (reqs[i].op = "ipify" /\ reqs[i].res = "ok" /\ i < k)
                              => reqs[k].op # "ipify"
    /\ prov.slept = timeout * (Cardinality(IpifyFailed)
                                  - IF pc = "ipify_sleep" THEN 1 ELSE 0)
    /\ (Cardinality(IpifyFailed) = numOfRetries /\ pc \notin {"ipify_sleep", "ipify_done"})
            => /\ pc = "exit"
               /\ exitCode = 1
               /\ prov.err = Err("Was not able to get a valid response")
               /\ NumOp("dns") = 0

\* every attempt failed and the run has ended
C19_Witness ==
    /\ Cardinality(IpifyFailed) = numOfRetries
    /\ prov.slept = numOfRetries * timeout
    /\ pc = "exit" /\ exitCode = 1

\* the errors deleteRecord returns
DeleteErrors ==
    { ResultErr(r[1], r[2], "Delete") : r \in {"status", "transport"} \X StatusCodes }

\* the error the upsert of type t returned to Update
UpsertErr(t) == IF t = "A" THEN uf.err4 ELSE uf.err6

\* C21 -- The create follows a successful DELETE only: a DELETE that fails (at
\* the transport level or with a status other than success) is not followed
\* by a create request; the upsert returns the error of the DELETE, and the
\* record is still in the remote list.
C21_NoCreateAfterFailedDelete ==
    \A d \in Idx : (reqs[d].op = "delete" /\ reqs[d].res # "ok") =>
        /\ (d + 1) \in Idx => reqs[d + 1].op # "create"
        /\ d = Len(reqs) =>
                /\ pc # "upsert_create"
                /\ \E i \in DOMAIN records : records[i].id = reqs[d].id
                /\ pc = "update_ret" => UpsertErr(reqs[d].t) \in DeleteErrors

\* Update is about to return after the DELETE of an upsert failed
C21_Witness ==
    /\ pc = "update_ret"
    /\ reqs # << >>
    /\ reqs[Len(reqs)].op = "delete" /\ reqs[Len(reqs)].res = "status"

\* C22 -- Login fails with an error when the sign-in GET or the credentials
\* POST fails or is answered with a non-success status, and when the auth
\* response has no hoverauth cookie with a value; a client is authenticated
\* only after a credentials request that succeeded, so a failing Login leaves
\* an unauthenticated client unauthenticated; after a failed sign-in GET no
\* credentials POST is issued.
C22_LoginFailureCases ==
    /\ (pc = "login_ret" /\ reqs # << >> /\ LoginFailedAt(Len(reqs))) => lf.err # NoErr
    /\ IsAuthenticated(sessionCookie, authCookie) =>
            \E i \in Idx : reqs[i].op = "auth" /\ reqs[i].res = "ok"
    /\ \A i \in Idx :
            (reqs[i].op = "signin" /\ reqs[i].res \in {"status", "transport"}
             /\ (i + 1) \in Idx) => reqs[i + 1].op # "auth"

\* Login is about to return after a credentials request answered with a
\* non-success status, and the client is not authenticated
C22_Witness ==
    /\ pc = "login_ret"
    /\ reqs # << >>
    /\ reqs[Len(reqs)].op = "auth" /\ reqs[Len(reqs)].res = "status"
    /\ ~ IsAuthenticated(sessionCookie, authCookie)

\* C23 -- Whenever Login reports success, and whenever the client is
\* authenticated, the session cookie it holds is one captured from the sign-in
\* response (never the zero cookie of a response without hover_session), and
\* the auth cookie has a value.
C23_SessionCaptured ==
    /\ (pc = "login_ret" /\ lf.err = NoErr) => lf.sess = "captured"
    /\ IsAuthenticated(sessionCookie, authCookie) =>
            /\ sessionCookie = "captured"
            /\ authCookie \notin {NilCookie, ""}

\* positions of the hoverauth cookies with a value in a response
WithValue(cs) == { i \in DOMAIN cs : cs[i].name = "hoverauth" /\ cs[i].value # "" }

\* C24 -- Of several hoverauth cookies in the auth response Login stores the
\* first one with a non-empty value; it never stores an empty value; and a
\* response whose hoverauth cookies are all empty is an authentication
\* failure.
C24_FirstNonEmptyAuthCookie ==
    /\ authCookie # ""
    /\ (pc = "login_ret" /\ reqs # << >> /\ reqs[Len(reqs)].op = "auth"
        /\ reqs[Len(reqs)].res \in {"ok", "nocookie"}) =>
            IF WithValue(lf.cookies) = {}
            THEN lf.err # NoErr /\ reqs[Len(reqs)].res = "nocookie"
            ELSE /\ lf.err = NoErr
                 /\ \E i \in WithValue(lf.cookies) :
                        /\ \A j \in WithValue(lf.cookies) : i <= j
                        /\ authCookie = lf.cookies[i].value

\* Login returns nil after an auth response with two hoverauth cookies that
\* have different values
C24_Witness ==
    /\ pc = "login_ret"
    /\ Cardinality({ lf.cookies[i].value : i \in WithValue(lf.cookies) }) = 2
    /\ lf.err = NoErr

\* positions of the entries of the remote list that match the running upsert
Matching == { i \in DOMAIN records : records[i].name = uf.hostName
                                      /\ records[i].type = uf.type }

\* C25 -- When several entries match (host name, record type), getRecordID
\* returns the ID of the last one in response order; the upsert issues one
\* DELETE, for that ID, and a successful DELETE removes that entry only.
C25_LastDuplicateWins ==
    /\ pc = "upsert_delete" =>
            /\ Matching # {}
            /\ \E i \in Matching : /\ \A j \in Matching : j <= i
                                   /\ uf.recordID = records[i].id
    /\ \A d \in Idx : reqs[d].op = "delete" =>
            /\ d > 1
            /\ reqs[d - 1].op = "records" /\ reqs[d - 1].res = "ok"
            /\ reqs[d].id = reqs[d - 1].id
            /\ (d = Len(reqs) /\ reqs[d].res = "ok") =>
                    /\ Cardinality(Matching) = reqs[d - 1].n - 1
                    /\ \A i \in DOMAIN records : records[i].id # reqs[d].id

\* a successful DELETE after a lookup that found two matching entries
C25_Witness ==
    /\ pc = "upsert_create"
    /\ Len(reqs) > 1
    /\ reqs[Len(reqs)].op = "delete" /\ reqs[Len(reqs)].res = "ok"
    /\ reqs[Len(reqs) - 1].n = 2
    /\ Cardinality(Matching) = 1

\* the requests of the calls that need a session
AuthenticatedOps == {"domains", "records", "delete", "create"}

\* the error the call behind request r returned to Update
CallErr(r) == IF r.op = "domains" THEN uf.ret ELSE UpsertErr(r.t)

\* C26 -- The domain list, record list, create and DELETE requests carry the
\* session cookie and the auth cookie the client holds; and when one of them
\* is answered with a status outside 2xx, the call returns an error that
\* names that status code.
C26_CookiesAndStatusErrors ==
    \A i \in Idx : reqs[i].op \in AuthenticatedOps =>
        /\ reqs[i].sc \notin {NilCookie, "-"}
        /\ reqs[i].ac \notin {NilCookie, "-", ""}
        /\ i = Len(reqs) => reqs[i].sc = sessionCookie /\ reqs[i].ac = authCookie
        /\ (i = Len(reqs) /\ reqs[i].code \notin (200..299) \cup {0}) =>
                /\ pc \notin {"upsert_lookup", "upsert_delete", "upsert_create"}
                /\ pc = "update_ret" =>
                        /\ CallErr(reqs[i]).msg = "Received status code"
                        /\ CallErr(reqs[i]).code = reqs[i].code

\* a create request with both cookies was answered 403
C26_Witness ==
    /\ pc = "update_ret"
    /\ reqs # << >>
    /\ reqs[Len(reqs)].op = "create" /\ reqs[Len(reqs)].code = 403
    /\ reqs[Len(reqs)].ac = "tok1" /\ reqs[Len(reqs)].sc = "captured"

\* C27 -- Nothing is retried: the caller's invocations account for every
\* sign-in GET and every domain list request (one per Login, one per Update
\* at most); a credentials POST directly follows the sign-in GET of its
\* Login; and between two record-list GETs, two DELETEs or two create POSTs
\* for the same record type lies the domain list request of a later Update.
C27_NoRetry ==
    /\ NumOp("signin") + NumOp("domains") <= calls
    /\ NumOp("auth") <= NumOp("signin")
    /\ \A i \in Idx : reqs[i].op = "auth" =>
            i > 1 /\ reqs[i - 1].op = "signin" /\ reqs[i - 1].res \in {"ok", "ok_nocookie"}
    /\ \A i, j \in Idx :
            (i < j /\ reqs[i].op \in UpsertOps /\ reqs[i].op = reqs[j].op
             /\ reqs[i].t = reqs[j].t) =>
                \E k \in (i + 1)..(j - 1) : reqs[k].op = "domains"

\* the second Update of a client returns after its create failed
C27_Witness ==
    /\ pc = "update_ret"
    /\ reqs # << >>
    /\ reqs[Len(reqs)].op = "create" /\ reqs[Len(reqs)].res # "ok"
    /\ NumOp("create") = 2 /\ NumOp("domains") = 2

\* C28 -- A create request carries the host name, the record type and the
\* address Update passed to the upsert, with TTL 3600, and its URL names the
\* domain ID getDomainID resolved.
C28_CreateRequestContent ==
    \A i \in Idx : reqs[i].op = "create" =>
        /\ reqs[i].ttl = 3600
        /\ reqs[i].t \in TypeSet
        /\ reqs[i].dom = DomainID
        /\ (i = Len(reqs) /\ pc = "update_ret") =>
                /\ reqs[i].h = uf.hostName
                /\ reqs[i].dom = uf.domainID
                /\ reqs[i].content = IPString(IF reqs[i].t = "A" THEN uf.ip4 ELSE uf.ip6)

\* Update returns after the create request for an AAAA record succeeded
C28_Witness ==
    /\ pc = "update_ret"
    /\ reqs # << >>
    /\ reqs[Len(reqs)].op = "create" /\ reqs[Len(reqs)].t = "AAAA"
    /\ reqs[Len(reqs)].res = "ok"

C30_BodyTrimmed ==
    /\ \A b \in IpifyBodies : ParseIP(b.text) # NilIP =>
            /\ IcanhazipParse(b) = ParseIP(b.text)
            /\ AmazonParse(b) = ParseIP(b.text)
    /\ (prov.resp = "set" /\ ParseIP(prov.body.text) # NilIP) =>
            /\ prov.err = NoErr
            /\ desired["A"] = ParseIP(prov.body.text)

\* C31 -- GetPublicIPv6 of the ipify and of the amazon provider returns a nil
\* address with an error, without issuing a request and without a crash: the
\* call is never inside a lookup, and when it returns the history of requests
\* is as long as it was at the call.
C31_UnsupportedFamily ==
    (mode = "prov" /\ prov.v6 /\ prov.p \in {"ipify", "amazon"}) =>
        /\ pc \in {"prov_ret", "idle"}
        /\ prov.ip = NilIP
        /\ prov.err # NoErr
        /\ Len(reqs) = prov.n0

\* GetPublicIPv6 of amazon returns, after an earlier lookup that issued a
\* request
C31_Witness ==
    /\ pc = "prov_ret"
    /\ prov.p = "amazon" /\ prov.v6
    /\ prov.n0 > 0

\* the family of an address
Family(ip) == IF To4(ip) # NilIP THEN 4 ELSE IF ip.kind = "ip6" THEN 6 ELSE 0

\* the addresses of the interfaces named name, in enumeration order
AddrsOf(sys, name) ==
    LET named == { j \in DOMAIN sys.ifaces : sys.ifaces[j].name = name }
    IN  IF named = {} THEN << >> ELSE sys.ifaces[CHOOSE j \in named : TRUE].addrs

\* the positions of the global-unicast addresses of a family
Qualifying(addrs, fam) ==
    { k \in DOMAIN addrs : /\ addrs[k].type = "ipnet"
                            /\ IsGlobalUnicast(addrs[k])
                            /\ Family(addrs[k].ip) = fam }

\* no call of the operating system failed during the search
SearchRan ==
    /\ pc = "prov_ret" /\ prov.p = "local_interface"
    /\ ~ prov.sys.err
    /\ \A j \in DOMAIN prov.sys.ifaces : ~ prov.sys.ifaces[j].err

\* C32 -- The local-interface lookup returns the first global-unicast address
\* of the requested family on the interface of the configured name, and a
\* not-found error when that interface has none or does not exist.
C32_FirstGlobalOfFamily ==
    SearchRan =>
        LET addrs == AddrsOf(prov.sys, prov.name)
            q == Qualifying(addrs, IF prov.v6 THEN 6 ELSE 4)
        IN  IF q = {}
            THEN prov.ip = NilIP /\ prov.err # NoErr
            ELSE /\ prov.err = NoErr
                 /\ \E k \in q : (\A j \in q : k <= j) /\ prov.ip = addrs[k].ip

\* the family a lookup asks for
WantedFamily(v6) == IF v6 THEN 6 ELSE 4

\* C33 -- Every text-endpoint provider forces the socket family: a request of
\* GetPublicIP is answered over an IPv4 connection only and one of
\* GetPublicIPv6 over an IPv6 connection only, however the endpoint's name
\* resolves, so that the address a lookup returns is of the family asked for.
C33_SocketFamilyForced ==
    /\ \A i \in Idx : (reqs[i].op \in {"get", "ipify"} /\ reqs[i].res = "ok") =>
            reqs[i].fam = (IF reqs[i].t = "A" THEN 4 ELSE 6)
    /\ (pc = "prov_ret" /\ prov.p \in {"ipify", "icanhazip", "amazon"}
        /\ prov.err = NoErr) => Family(prov.ip) = WantedFamily(prov.v6)

\* the entries of the remote list a step removes
Removed == { records[i] : i \in DOMAIN records } \ { records'[i] : i \in DOMAIN records' }

\* C34 -- Type isolation of the replace: the DELETE of an upsert for (H, T)
\* names the ID the record lookup of that upsert returned, and every record
\* the step removes has name H and type T; no other step of an upsert removes
\* a record.
C34_TypeIsolation ==
    [][ /\ pc = "upsert_delete" =>
            /\ reqs[Len(reqs)].op = "records"
            /\ reqs[Len(reqs)].h = uf.hostName /\ reqs[Len(reqs)].t = uf.type
            /\ reqs[Len(reqs)].id = uf.recordID
            /\ reqs'[Len(reqs')].op = "delete" /\ reqs'[Len(reqs')].id = uf.recordID
            /\ \A r \in Removed : /\ r.name = uf.hostName
                                  /\ r.type = uf.type
                                  /\ r.id = uf.recordID
        /\ pc \in {"upsert_lookup", "upsert_create"} => Removed = {}
      ]_vars

\* the DELETE of an upsert for an AAAA record has removed a record while A
\* records and records of another host are listed
C34_Witness ==
    /\ pc = "upsert_create"
    /\ reqs # << >>
    /\ reqs[Len(reqs)].op = "delete" /\ reqs[Len(reqs)].res = "ok"
    /\ reqs[Len(reqs)].t = "AAAA"
    /\ \E i, j \in DOMAIN records : /\ records[i].type = "A"
                                     /\ records[j].name # uf.hostName

\* Update is returning right after an upsert whose create succeeded
UpsertSucceeded ==
    /\ pc = "update_ret"
    /\ reqs # << >>
    /\ reqs[Len(reqs)].op = "create" /\ reqs[Len(reqs)].res = "ok"

\* the positions in the remote list of the records of the upsert just made
Upserted ==
    { i \in DOMAIN records : /\ records[i].name = reqs[Len(reqs)].h
                              /\ records[i].type = reqs[Len(reqs)].t }

\* the number of entries the record lookup of the upsert just made matched
MatchedBefore ==
    IF reqs[Len(reqs) - 1].op = "delete" THEN reqs[Len(reqs) - 2].n
    ELSE reqs[Len(reqs) - 1].n

\* C35 (as stated) -- After a successful upsert the remote list has exactly
\* one record of that name and type, holding the new value, however many
\* matched before.
C35_ExactlyOneRecord ==
    UpsertSucceeded =>
        /\ Cardinality(Upserted) = 1
        /\ \A i \in Upserted : records[i].content = reqs[Len(reqs)].content

\* C35 (amended) -- After a successful upsert the last record of the remote
\* list is the new one, with the name, type and value of the upsert; when at
\* most one record matched before, it is the only record of that name and
\* type; when n > 1 matched, the last of them was replaced and the n - 1
\* earlier ones remain.
C35_ReplacesLastMatch ==
    UpsertSucceeded =>
        /\ Len(records) \in Upserted
        /\ records[Len(records)].content = reqs[Len(reqs)].content
        /\ Cardinality(Upserted) = (IF MatchedBefore = 0 THEN 1 ELSE MatchedBefore)
        /\ MatchedBefore <= 1 => Upserted = {Len(records)}

\* a successful upsert whose lookup matched two records
C35_Witness ==
    /\ UpsertSucceeded
    /\ MatchedBefore = 2
    /\ Cardinality(Upserted) = 2

\* a cookie of the client's session is missing
Unauthenticated == sessionCookie = NilCookie \/ authCookie = NilCookie

\* C36 -- Update on a client that is not authenticated returns the error
\* "no auth session was provided" and issues no request: the step of Update
\* on such a client leaves the history of requests and the remote records as
\* they are and returns that error.
C36_UpdateNeedsSession ==
    [][ (pc = "update_call" /\ Unauthenticated) =>
            /\ reqs' = reqs
            /\ records' = records
            /\ pc' = "update_ret"
            /\ uf'.ret = Err("no auth session was provided")
      ]_vars

\* Update has returned the error to a client whose Login failed before
C36_Witness ==
    /\ pc = "update_ret"
    /\ Unauthenticated
    /\ uf.ret = Err("no auth session was provided")
    /\ reqs # << >> /\ LoginFailedAt(Len(reqs))

\* C37 -- A failed Login leaves the stored session as it was: no step of a
\* Login that ends with an error changes the session cookie or the auth
\* cookie of the client, whether or not the client was authenticated.
C37_FailedLoginKeepsSession ==
    [][ /\ pc = "login_call" => (sessionCookie' = sessionCookie /\ authCookie' = authCookie)
        /\ (pc = "login_auth" /\ lf'.err # NoErr) =>
                (sessionCookie' = sessionCookie /\ authCookie' = authCookie)
      ]_vars

\* Login has failed at the credentials request on a client that was
\* authenticated
C37_Witness ==
    /\ pc = "login_ret"
    /\ lf.err # NoErr
    /\ reqs[Len(reqs)].op = "auth"
    /\ authCookie = "tok1" /\ sessionCookie # NilCookie

\* C38 -- The session cookie and the auth cookie of a client are both unset
\* or both set; a set auth cookie has a value; and IsAuthenticated is true
\* exactly when both are set.
C38_CookiesSetTogether ==
    /\ (sessionCookie = NilCookie) <=> (authCookie = NilCookie)
    /\ authCookie # NilCookie => authCookie # ""
    /\ IsAuthenticated(sessionCookie, authCookie)
            <=> (sessionCookie # NilCookie /\ authCookie # NilCookie)

\* a client whose Login has succeeded, back at its caller
C38_Witness ==
    /\ mode = "caller" /\ pc = "idle"
    /\ sessionCookie = "captured" /\ authCookie = "tok1"
    /\ NumOp("auth") = 2

====
